---- MODULE Spec2Model ----
(***************************************************************************)
(* Model of the Preparer pipeline of zk-pig (src/src/generator/prepare.go). *)
(*                                                                         *)
(* One caller invokes Prepare Runs times on the same PreflightData.  Each  *)
(* stage function of prepare.go is one action; the collaborators that are  *)
(* not part of prepare.go (header chain, NodeSet builder, trie database,    *)
(* state database, EVM executor) are modelled by their outcome, which is    *)
(* fixed per input (env) so that they are deterministic across calls.       *)
(* Go pointers are sequences of length 0 (nil) or 1; a Go error is the      *)
(* sequence of its message parts, outermost wrapper first, <<>> being nil.  *)
(***************************************************************************)
EXTENDS Integers, Sequences, FiniteSets, TLC

\* ---------------------------------------------------------------- bounds
MaxNumber == 2      \* largest block number of the prepared block
MaxAncestors == 2   \* longest Ancestors sequence
MaxCodes == 2       \* number of distinct bytecodes
MaxNodes == 2       \* number of distinct trie nodes
Runs == 2           \* number of Prepare invocations on the same input

\* ------------------------------------------------------------ data model
ChainConfigs == {"chain-1", "chain-5"}
CodeHashes == 1..MaxCodes
NodeIds == 1..MaxNodes

\* raw bytecode blob with Keccak hash h / encoded trie node with id n
Bytecode(h) == 100 + h
EncodedNode(n) == 200 + n

\* the header of block number n of the (single) canonical chain
Header(n) == [Number |-> n, ParentHash |-> n - 1, Root |-> 300 + n]

Bodies ==
  { [Transactions |-> <<>>, Uncles |-> <<>>, Withdrawals |-> <<>>],
    [Transactions |-> <<"tx1">>, Uncles |-> <<"u1">>, Withdrawals |-> <<"w1">>] }

\* the RPC block of PreflightData: the header fields and the body, flat,
\* plus the block hash the RPC reported
RPCBlock(n, body) ==
  [Number |-> n, Hash |-> 400 + n, ParentHash |-> n - 1, Root |-> 300 + n,
   Transactions |-> body.Transactions, Uncles |-> body.Uncles,
   Withdrawals |-> body.Withdrawals]

\* every valid PreflightData within the bounds: Ancestors is non-empty,
\* index 1 is the parent, each next one is one block older
PreflightDatas ==
  { [ChainConfig |-> cfg,
     Block |-> RPCBlock(n, body),
     Ancestors |-> [i \in 1..d |-> Header(n - i)],
     PreStateProofs |-> pre,
     PostStateProofs |-> post,
     Codes |-> [h \in hs |-> Bytecode(h)]] :
    cfg \in ChainConfigs, n \in 1..MaxNumber, body \in Bodies,
    d \in 1..MaxAncestors, pre \in {{1}}, post \in {NodeIds}, hs \in {CodeHashes} }

\* a valid PreflightData has no ancestor older than block 0
ValidPreflightDatas == { p \in PreflightDatas : Len(p.Ancestors) <= p.Block.Number }

\* the trie nodes the proofs of a PreflightData decode to
ProofNodes(p) == p.PreStateProofs \cup p.PostStateProofs

\* Outcomes of the collaborators for one PreflightData.  fail is the one
\* collaborator call that fails (the pipeline stops at the first failure);
\* genesis tells whether the header chain was created with a header number
\* 0 in the store; honoursCancel whether the executor looks at its
\* cancellation token; missing is the node access the executor cannot
\* serve; wCodes / wNodes / wHeaders is the witness the executor records.
FailPoints == {"none", "NewChain", "NodeSet", "Update", "StateNew",
               "missing-node", "divergence"}
MissingAccesses == { [owner |-> "owner:state", path |-> "path:0x1"],
                     [owner |-> "owner:accC", path |-> "path:0x2"] }
NoAccess == [owner |-> "", path |-> ""]

Envs(p) ==
  { [fail |-> f, genesis |-> g, honoursCancel |-> hc, missing |-> m,
     wCodes |-> wc, wNodes |-> wn, wHeaders |-> wh] :
    f \in FailPoints, g \in BOOLEAN, hc \in BOOLEAN,
    m \in MissingAccesses \cup {NoAccess},
    wc \in SUBSET { p.Codes[h] : h \in DOMAIN p.Codes },
    wn \in SUBSET { EncodedNode(n) : n \in ProofNodes(p) },
    wh \in 0..Len(p.Ancestors) }

\* whether the oldest ancestor of p is block 0
AncestorsReachGenesis(p) == p.Block.Number = Len(p.Ancestors)

\* Only the outcomes that can be observed are distinguished: a collaborator
\* that is never called, or whose result is never used, has its default
\* outcome (no witness without an execution; nothing after the call that
\* fails; nothing after hydration when the store holds no header number 0).
ReachableEnvs(p) ==
  { e \in Envs(p) :
      /\ (e.fail = "missing-node") <=> (e.missing # NoAccess)
      /\ (e.fail # "none") => (e.wCodes = {} /\ e.wNodes = {} /\ e.wHeaders = 0)
      /\ (e.fail \in {"NewChain", "NodeSet", "Update", "StateNew"}) => ~e.honoursCancel
      /\ (e.fail = "NewChain" \/ AncestorsReachGenesis(p)) => ~e.genesis
      /\ (~e.genesis /\ ~AncestorsReachGenesis(p)) =>
            /\ e.fail \in {"none", "NewChain", "NodeSet"}
            /\ ~e.honoursCancel
            /\ e.wCodes = {} /\ e.wNodes = {} /\ e.wHeaders = 0 }

VARIABLES
  data,        \* the PreflightData every call is made with
  env,         \* the collaborators' outcomes for data
  run,         \* number of the current Prepare call
  pc,          \* position of the current call
  cancelled,   \* whether the call's context.Context has been cancelled
  valCtx,      \* *preparerContext of the call (nil before stage 1)
  execParams,  \* *evm.ExecParams of the call (nil before stage 3)
  inputs,      \* the *ProverInput prepare hands back to Prepare
  err,         \* the error prepare hands back to Prepare
  trace,       \* log lines and collaborator calls of the call, in order
  seen,        \* per call: whether Execute was handed a cancelled token
  ret          \* per call: what Prepare returned (or that it panicked)

vars == <<data, env, run, pc, cancelled, valCtx, execParams, inputs, err,
          trace, seen, ret>>

\* -------------------------------------------------------------- errors
NoError == <<>>
\* fmt.Errorf("<msg>: %v", e): the message, then the wrapped error's text
Errorf(msg, e) == <<msg>> \o e

\* ------------------------------------------------------- collaborators
\* rawdb.NewMemoryDatabase: the store with its header, trie-node and code
\* spaces empty
NewMemoryDatabase == [headers |-> {}, nodes |-> {}, codes |-> {}, root |-> <<>>]

\* state.NewAccessTrackerManager: a fresh tracker without recorded access
NewAccessTrackerManager == [accesses |-> <<>>]

\* state.NewAccessTrackerDatabase: the state database over the store, every
\* node resolution of which is recorded by the tracker
NewAccessTrackerDatabase(disk, trackers) == [disk |-> disk, trackers |-> trackers]

\* ethereum.NewChain: the header chain over the store, carrying the chain
\* config; it may have put a header number 0 into the store
NewChain(cfg, stateDB) ==
  IF env.fail = "NewChain"
  THEN [hc |-> <<>>, stateDB |-> stateDB, err |-> <<"genesis commit failed">>]
  ELSE [hc |-> <<[Config |-> cfg]>>,
        stateDB |-> IF env.genesis
                    THEN [stateDB EXCEPT !.disk.headers = @ \cup {Header(0)}]
                    ELSE stateDB,
        err |-> NoError]

\* ethereum.WriteHeaders: every header goes into the header space
RECURSIVE WriteHeaders(_, _)
WriteHeaders(disk, headers) ==
  IF headers = <<>> THEN disk
  ELSE WriteHeaders([disk EXCEPT !.headers = @ \cup {Head(headers)}], Tail(headers))

\* HeaderChain.GetHeaderByNumber: the header of that number in the header
\* space, nil when there is none
GetHeaderByNumber(disk, n) ==
  IF \E h \in disk.headers : h.Number = n
  THEN <<CHOOSE h \in disk.headers : h.Number = n>>
  ELSE <<>>

\* trie.NodeSetFromStateTransitionProofs: the union of the nodes of the pre-
\* and post-state proofs, or an error
NodeSetFromStateTransitionProofs(preRoot, postRoot, preProofs, postProofs) ==
  IF env.fail = "NodeSet"
  THEN [nodeSet |-> {}, err |-> <<"proof root mismatch">>]
  ELSE [nodeSet |-> { EncodedNode(n) : n \in preProofs \cup postProofs },
        err |-> NoError]

\* triedb.Database.Update: installs every node of the set under the
\* transition parentRoot -> newRoot, or fails and installs none
Update(disk, parentRoot, newRoot, blockNumber, nodeSet) ==
  IF env.fail = "Update"
  THEN [disk |-> disk, err |-> <<"trie commit rejected">>]
  ELSE [disk |-> [disk EXCEPT !.nodes = @ \cup nodeSet,
                              !.root = <<[parent |-> parentRoot, new |-> newRoot,
                                          number |-> blockNumber]>>],
        err |-> NoError]

\* ethereum.WriteCodes: every bytecode goes into the code space
RECURSIVE WriteCodes(_, _)
WriteCodes(disk, codes) ==
  IF codes = <<>> THEN disk
  ELSE WriteCodes([disk EXCEPT !.codes = @ \cup {Head(codes)}], Tail(codes))

\* gethstate.New: the state object at root over the database, or an error
\* when the root cannot be resolved
StateNew(root, stateDB) ==
  IF env.fail = "StateNew"
  THEN [state |-> <<>>, err |-> <<"missing trie node for root">>]
  ELSE [state |-> <<[root |-> root, db |-> stateDB,
                     witness |-> [Headers |-> <<>>, Codes |-> {}, State |-> {}]]>>,
        err |-> NoError]

\* RPC block -> types.Block: the header fields become the header, the body
\* keeps transactions, uncles and withdrawals; the reported hash is dropped
BlockOf(b) ==
  [header |-> [Number |-> b.Number, ParentHash |-> b.ParentHash, Root |-> b.Root],
   transactions |-> b.Transactions,
   uncles |-> b.Uncles,
   withdrawals |-> b.Withdrawals]

\* evm Executor.Execute on (token, params): fails on a cancelled token when
\* the executor honours it, on a node the trie cannot serve (the error names
\* owner and path of the access the state's tracker recorded last) or on a
\* diverging result; otherwise the state's witness holds what was accessed
Execute(tokenCancelled, params) ==
  LET st == params.State[1] IN
  IF tokenCancelled /\ env.honoursCancel
  THEN [state |-> st, err |-> <<"context canceled">>]
  ELSE IF env.fail = "missing-node"
  THEN LET tr == [accesses |-> Append(st.db.trackers.accesses, env.missing)]
           last == tr.accesses[Len(tr.accesses)]
       IN [state |-> [st EXCEPT !.db.trackers = tr],
           err |-> <<"missing trie node", last.owner, last.path>>]
  ELSE IF env.fail = "divergence"
  THEN [state |-> st, err |-> <<"invalid merkle root">>]
  ELSE [state |-> [st EXCEPT !.witness =
                     [Headers |-> [i \in 1..env.wHeaders |->
                                    GetHeaderByNumber(st.db.disk,
                                      params.Block.header.Number - i)[1]],
                      Codes |-> env.wCodes \cap st.db.disk.codes,
                      State |-> env.wNodes \cap st.db.disk.nodes]],
        err |-> NoError]

\* ------------------------------------------------------ stage functions
\* Every stage function yields what it returns (err, and ctx / params /
\* inputs), whether it panicked, and the log lines and collaborator calls
\* it made, in order, closed by how it returned.

\* every order in which a Go map with key set S can be iterated
Orders(S) ==
  { o \in [1..Cardinality(S) -> S] : \A i, j \in DOMAIN o : i # j => o[i] # o[j] }

\* preparer.prepareContext
prepareContext(ctx, in) ==
  LET trackers == NewAccessTrackerManager
      db == NewMemoryDatabase
      stateDB == NewAccessTrackerDatabase(db, trackers)
      chain == NewChain(in.ChainConfig, stateDB)
  IN IF chain.err # NoError
     THEN [ctx |-> <<>>,
           err |-> Errorf("failed to create chain", chain.err),
           panic |-> FALSE,
           events |-> <<"Prepare context...", "NewChain", "prepareContext=err">>]
     ELSE [ctx |-> <<[ctx |-> ctx, trackers |-> trackers,
                      stateDB |-> chain.stateDB, hc |-> chain.hc[1]]>>,
           err |-> NoError,
           panic |-> FALSE,
           events |-> <<"Prepare context...", "NewChain", "prepareContext=ok">>]

\* preparePreState looking header number 0 up only after the node set has
\* been committed (under the parent's root)
preparePreStateLazyGenesis(ctx, in, order) ==
  LET d1 == WriteHeaders(ctx.stateDB.disk, in.Ancestors)
      parentHeader == in.Ancestors[1]
      ns == NodeSetFromStateTransitionProofs(parentHeader.Root, in.Block.Root,
                                             in.PreStateProofs, in.PostStateProofs)
      up == Update(d1, parentHeader.Root, parentHeader.Root, 0, ns.nodeSet)
      codes == [i \in DOMAIN order |-> in.Codes[order[i]]]
      pre == <<"Prepare pre-state...", "WriteHeaders",
               "NodeSetFromStateTransitionProofs">>
  IN IF ns.err # NoError
     THEN [ctx |-> [ctx EXCEPT !.stateDB.disk = d1],
           err |-> Errorf("failed to create state nodes", ns.err),
           panic |-> FALSE,
           events |-> pre \o <<"preparePreState=err">>]
     ELSE IF up.err # NoError
     THEN [ctx |-> [ctx EXCEPT !.stateDB.disk = up.disk],
           err |-> Errorf("failed to update trie db with state nodes", up.err),
           panic |-> FALSE,
           events |-> pre \o <<"Update", "preparePreState=err">>]
     ELSE [ctx |-> [ctx EXCEPT !.stateDB.disk = WriteCodes(up.disk, codes)],
           err |-> NoError,
           panic |-> FALSE,
           events |-> pre \o <<"Update", "GetHeaderByNumber(0)", "WriteCodes",
                               "preparePreState=ok">>]

\* preparePreState writing the bytecodes before it builds the node set
preparePreStateCodesFirst(ctx, in, order) ==
  LET codes == [i \in DOMAIN order |-> in.Codes[order[i]]]
      d1 == WriteCodes(WriteHeaders(ctx.stateDB.disk, in.Ancestors), codes)
      parentHeader == in.Ancestors[1]
      genesisHeader == GetHeaderByNumber(d1, 0)
      ns == NodeSetFromStateTransitionProofs(parentHeader.Root, in.Block.Root,
                                             in.PreStateProofs, in.PostStateProofs)
      pre == <<"Prepare pre-state...", "WriteHeaders", "WriteCodes",
               "GetHeaderByNumber(0)", "NodeSetFromStateTransitionProofs">>
  IN IF ns.err # NoError
     THEN [ctx |-> [ctx EXCEPT !.stateDB.disk = d1],
           err |-> Errorf("failed to create state nodes", ns.err),
           panic |-> FALSE,
           events |-> pre \o <<"preparePreState=err">>]
     ELSE IF genesisHeader = <<>>
     THEN [ctx |-> [ctx EXCEPT !.stateDB.disk = d1],
           err |-> NoError,
           panic |-> TRUE,
           events |-> pre \o <<"panic">>]
     ELSE LET up == Update(d1, parentHeader.Root, genesisHeader[1].Root, 0, ns.nodeSet)
          IN IF up.err # NoError
             THEN [ctx |-> [ctx EXCEPT !.stateDB.disk = up.disk],
                   err |-> Errorf("failed to update trie db with state nodes", up.err),
                   panic |-> FALSE,
                   events |-> pre \o <<"Update", "preparePreState=err">>]
             ELSE [ctx |-> [ctx EXCEPT !.stateDB.disk = up.disk],
                   err |-> NoError,
                   panic |-> FALSE,
                   events |-> pre \o <<"Update", "preparePreState=ok">>]

\* preparer.preparePreState; order is the iteration order of inputs.Codes
preparePreState(ctx, in, order) ==
  LET d1 == WriteHeaders(ctx.stateDB.disk, in.Ancestors)
      parentHeader == in.Ancestors[1]
      genesisHeader == GetHeaderByNumber(d1, 0)
      ns == NodeSetFromStateTransitionProofs(parentHeader.Root, in.Block.Root,
                                             in.PreStateProofs, in.PostStateProofs)
      pre == <<"Prepare pre-state...", "WriteHeaders", "GetHeaderByNumber(0)",
               "NodeSetFromStateTransitionProofs">>
  IN IF ns.err # NoError
     THEN [ctx |-> [ctx EXCEPT !.stateDB.disk = d1],
           err |-> Errorf("failed to create state nodes", ns.err),
           panic |-> FALSE,
           events |-> pre \o <<"preparePreState=err">>]
     ELSE IF genesisHeader = <<>>
     THEN \* genesisHeader.Root on a nil header: nil pointer dereference
          [ctx |-> [ctx EXCEPT !.stateDB.disk = d1],
           err |-> NoError,
           panic |-> TRUE,
           events |-> pre \o <<"panic">>]
     ELSE LET up == Update(d1, parentHeader.Root, genesisHeader[1].Root, 0, ns.nodeSet)
          IN IF up.err # NoError
             THEN [ctx |-> [ctx EXCEPT !.stateDB.disk = up.disk],
                   err |-> Errorf("failed to update trie db with state nodes", up.err),
                   panic |-> FALSE,
                   events |-> pre \o <<"Update", "preparePreState=err">>]
             ELSE LET codes == [i \in DOMAIN order |-> in.Codes[order[i]]]
                  IN [ctx |-> [ctx EXCEPT !.stateDB.disk = WriteCodes(up.disk, codes)],
                      err |-> NoError,
                      panic |-> FALSE,
                      events |-> pre \o <<"Update", "WriteCodes", "preparePreState=ok">>]

\* preparer.prepareExecParams
prepareExecParams(ctx, in) ==
  LET parentHeader == in.Ancestors[1]
      preState == StateNew(parentHeader.Root, ctx.stateDB)
  IN IF preState.err # NoError
     THEN [params |-> <<>>,
           err |-> Errorf("failed to create pre-state from parent root", preState.err),
           panic |-> FALSE,
           events |-> <<"Prepare execution parameters...", "state.New",
                        "prepareExecParams=err">>]
     ELSE [params |-> <<[VMConfig |-> [StatelessSelfValidation |-> TRUE],
                         Block |-> BlockOf(in.Block),
                         Validate |-> TRUE,
                         Chain |-> ctx.hc,
                         State |-> preState.state]>>,
           err |-> NoError,
           panic |-> FALSE,
           events |-> <<"Prepare execution parameters...", "state.New",
                        "prepareExecParams=ok">>]

\* execute leaving the executor's error out of the one it returns
executeDroppingCause(ctx, params) ==
  LET r == Execute(cancelled, params)
  IN IF r.err # NoError
     THEN [params |-> [params EXCEPT !.State = <<r.state>>],
           err |-> Errorf("failed to execute block", NoError),
           panic |-> FALSE,
           events |-> <<"Execute EVM...", "Execute", "execute=err">>]
     ELSE [params |-> [params EXCEPT !.State = <<r.state>>],
           err |-> NoError,
           panic |-> FALSE,
           events |-> <<"Execute EVM...", "Execute", "execute=ok">>]

\* preparer.execute; the token of ctx.ctx is the call's context
execute(ctx, params) ==
  LET r == Execute(cancelled, params)
  IN IF r.err # NoError
     THEN [params |-> [params EXCEPT !.State = <<r.state>>],
           err |-> Errorf("failed to execute block", r.err),
           panic |-> FALSE,
           events |-> <<"Execute EVM...", "Execute", "execute=err">>]
     ELSE [params |-> [params EXCEPT !.State = <<r.state>>],
           err |-> NoError,
           panic |-> FALSE,
           events |-> <<"Execute EVM...", "Execute", "execute=ok">>]

\* the loops of prepareProverInput: append every key, in iteration order
RECURSIVE AppendAll(_, _)
AppendAll(slice, keys) ==
  IF keys = <<>> THEN slice
  ELSE AppendAll(Append(slice, Head(keys)), Tail(keys))

\* prepareProverInput leaving the uncles out of the block
prepareProverInputNoUncles(params, codeOrder, nodeOrder) ==
  LET witness == params.State[1].witness
  IN [ChainConfig |-> params.Chain.Config,
      Blocks |-> << [Header |-> params.Block.header,
                     Transactions |-> params.Block.transactions,
                     Uncles |-> <<>>,
                     Withdrawals |-> params.Block.withdrawals] >>,
      Witness |-> [Ancestors |-> witness.Headers,
                   Codes |-> AppendAll(<<>>, codeOrder),
                   State |-> AppendAll(<<>>, nodeOrder)]]

\* prepareProverInput whose second loop appends to Codes as the first does
prepareProverInputNodesIntoCodes(params, codeOrder, nodeOrder) ==
  LET witness == params.State[1].witness
  IN [ChainConfig |-> params.Chain.Config,
      Blocks |-> << [Header |-> params.Block.header,
                     Transactions |-> params.Block.transactions,
                     Uncles |-> params.Block.uncles,
                     Withdrawals |-> params.Block.withdrawals] >>,
      Witness |-> [Ancestors |-> witness.Headers,
                   Codes |-> AppendAll(AppendAll(<<>>, codeOrder), nodeOrder),
                   State |-> <<>>]]

\* prepareProverInput whose loops assign the key instead of appending it:
\* only the key iterated last is kept
prepareProverInputLastKeyOnly(params, codeOrder, nodeOrder) ==
  LET witness == params.State[1].witness
      last(keys) == IF keys = <<>> THEN <<>> ELSE <<keys[Len(keys)]>>
  IN [ChainConfig |-> params.Chain.Config,
      Blocks |-> << [Header |-> params.Block.header,
                     Transactions |-> params.Block.transactions,
                     Uncles |-> params.Block.uncles,
                     Withdrawals |-> params.Block.withdrawals] >>,
      Witness |-> [Ancestors |-> witness.Headers,
                   Codes |-> last(codeOrder),
                   State |-> last(nodeOrder)]]

\* preparer.prepareProverInput; codeOrder and nodeOrder are the iteration
\* orders of witness.Codes and witness.State
prepareProverInput(params, codeOrder, nodeOrder) ==
  LET witness == params.State[1].witness
  IN [ChainConfig |-> params.Chain.Config,
      Blocks |-> << [Header |-> params.Block.header,
                     Transactions |-> params.Block.transactions,
                     Uncles |-> params.Block.uncles,
                     Withdrawals |-> params.Block.withdrawals] >>,
      Witness |-> [Ancestors |-> witness.Headers,
                   Codes |-> AppendAll(<<>>, codeOrder),
                   State |-> AppendAll(<<>>, nodeOrder)]]

\* ---------------------------------------------------- preparer.prepare
Stages == <<"prepareContext", "preparePreState", "prepareExecParams",
            "execute", "prepareProverInput">>

\* StageMessage with the messages of hydration and of execution exchanged
StageMessageExchanged(stage) ==
  CASE stage = "prepareContext" -> "failed to prepare validation context"
    [] stage = "preparePreState" -> "validation execution failed"
    [] stage = "prepareExecParams" -> "failed to prepare validation exec params"
    [] stage = "execute" -> "failed to prefill validation database"

\* the message prepare wraps the error of a stage with
StageMessage(stage) ==
  CASE stage = "prepareContext" -> "failed to prepare validation context"
    [] stage = "preparePreState" -> "failed to prefill validation database"
    [] stage = "prepareExecParams" -> "failed to prepare validation exec params"
    [] stage = "execute" -> "validation execution failed"

\* NextStage going on after a failed hydration
NextStageIgnoringHydrationError(stage, e) ==
  IF e # NoError /\ stage # "preparePreState" THEN "return"
  ELSE CASE stage = "prepareContext" -> "preparePreState"
         [] stage = "preparePreState" -> "prepareExecParams"
         [] stage = "prepareExecParams" -> "execute"
         [] stage = "execute" -> "prepareProverInput"

\* NextStage checking the token before hydration, before execution and
\* after execution
NextStageCheckingToken(stage, e) ==
  IF e # NoError THEN "return"
  ELSE IF cancelled /\ stage \in {"prepareContext", "prepareExecParams", "execute"}
  THEN "return"
  ELSE CASE stage = "prepareContext" -> "preparePreState"
         [] stage = "preparePreState" -> "prepareExecParams"
         [] stage = "prepareExecParams" -> "execute"
         [] stage = "execute" -> "prepareProverInput"

\* where prepare goes after a stage returned e
NextStage(stage, e) ==
  IF e # NoError THEN "return"
  ELSE CASE stage = "prepareContext" -> "preparePreState"
         [] stage = "preparePreState" -> "prepareExecParams"
         [] stage = "prepareExecParams" -> "execute"
         [] stage = "execute" -> "prepareProverInput"

\* what prepare returns when a stage returned e
StageError(stage, e) ==
  IF e # NoError THEN Errorf(StageMessage(stage), e) ELSE NoError

\* what Prepare returns when prepare returned (in, e)
PrepareReturn(in, e) ==
  IF e # NoError THEN [kind |-> "returned", inputs |-> <<>>, err |-> e]
  ELSE [kind |-> "returned", inputs |-> in, err |-> NoError]

NotReturned == [kind |-> "none", inputs |-> <<>>, err |-> NoError]
Panicked == [kind |-> "panicked", inputs |-> <<>>, err |-> NoError]

\* --------------------------------------------------------------- actions
Init ==
  /\ data \in ValidPreflightDatas
  /\ env \in ReachableEnvs(data)
  /\ run = 1
  /\ pc = "idle"
  /\ cancelled = FALSE
  /\ valCtx = <<>>
  /\ execParams = <<>>
  /\ inputs = <<>>
  /\ err = NoError
  /\ trace = <<>>
  /\ seen = [r \in 1..Runs |-> FALSE]
  /\ ret = [r \in 1..Runs |-> NotReturned]

\* the caller invokes Prepare with a token that may already be cancelled
Call ==
  /\ pc = "idle"
  /\ \E c \in BOOLEAN :
       /\ cancelled' = c
       /\ trace' = (IF c THEN <<"ctx.cancel">> ELSE <<>>)
                    \o <<"Process provable inputs preparation...">>
  /\ pc' = "prepareContext"
  /\ UNCHANGED <<data, env, run, valCtx, execParams, inputs, err, seen, ret>>

\* the caller cancels the token while Prepare runs
Cancel ==
  /\ pc \in { Stages[i] : i \in DOMAIN Stages } \cup {"return"}
  /\ ~cancelled
  /\ cancelled' = TRUE
  /\ trace' = Append(trace, "ctx.cancel")
  /\ UNCHANGED <<data, env, run, pc, valCtx, execParams, inputs, err, seen, ret>>

PrepareContext ==
  /\ pc = "prepareContext"
  /\ LET r == prepareContext(run, data)
     IN /\ valCtx' = r.ctx
        /\ err' = StageError("prepareContext", r.err)
        /\ pc' = NextStage("prepareContext", r.err)
        /\ trace' = trace \o r.events
  /\ UNCHANGED <<data, env, run, cancelled, execParams, inputs, seen, ret>>

PreparePreState ==
  /\ pc = "preparePreState"
  /\ \E order \in Orders(DOMAIN data.Codes) :
       LET r == preparePreState(valCtx[1], data, order)
       IN /\ valCtx' = <<r.ctx>>
          /\ trace' = trace \o r.events
          /\ IF r.panic
             THEN /\ pc' = "panicked"
                  /\ ret' = [ret EXCEPT ![run] = Panicked]
                  /\ err' = err
             ELSE /\ pc' = NextStage("preparePreState", r.err)
                  /\ err' = StageError("preparePreState", r.err)
                  /\ ret' = ret
  /\ UNCHANGED <<data, env, run, cancelled, execParams, inputs, seen>>

PrepareExecParams ==
  /\ pc = "prepareExecParams"
  /\ LET r == prepareExecParams(valCtx[1], data)
     IN /\ execParams' = r.params
        /\ err' = StageError("prepareExecParams", r.err)
        /\ pc' = NextStage("prepareExecParams", r.err)
        /\ trace' = trace \o r.events
  /\ UNCHANGED <<data, env, run, cancelled, valCtx, inputs, seen, ret>>

ExecuteStage ==
  /\ pc = "execute"
  /\ LET r == execute(valCtx[1], execParams[1])
     IN /\ execParams' = <<r.params>>
        \* the tracker of the context is the one the state database records into
        /\ valCtx' = <<[valCtx[1] EXCEPT !.trackers = r.params.State[1].db.trackers]>>
        /\ err' = StageError("execute", r.err)
        /\ pc' = NextStage("execute", r.err)
        /\ trace' = trace \o r.events
  /\ seen' = [seen EXCEPT ![run] = cancelled]
  /\ UNCHANGED <<data, env, run, cancelled, inputs, ret>>

PrepareProverInput ==
  /\ pc = "prepareProverInput"
  /\ \E codeOrder \in Orders(execParams[1].State[1].witness.Codes),
        nodeOrder \in Orders(execParams[1].State[1].witness.State) :
       inputs' = <<prepareProverInput(execParams[1], codeOrder, nodeOrder)>>
  /\ err' = NoError
  /\ pc' = "return"
  /\ trace' = trace \o <<"prepareProverInput", "prepareProverInput=ok">>
  /\ UNCHANGED <<data, env, run, cancelled, valCtx, execParams, seen, ret>>

\* Prepare logs the outcome of prepare and returns
Return ==
  /\ pc = "return"
  /\ ret' = [ret EXCEPT ![run] = PrepareReturn(inputs, err)]
  /\ pc' = "done"
  /\ trace' = Append(trace, IF err # NoError
                             THEN "Provable inputs preparation failed"
                             ELSE "Provable inputs preparation succeeded")
  /\ UNCHANGED <<data, env, run, cancelled, valCtx, execParams, inputs, err, seen>>

\* the caller invokes Prepare again on the same PreflightData
NextCall ==
  /\ pc \in {"done", "panicked"}
  /\ run < Runs
  /\ run' = run + 1
  /\ pc' = "idle"
  /\ cancelled' = FALSE
  /\ valCtx' = <<>>
  /\ execParams' = <<>>
  /\ inputs' = <<>>
  /\ err' = NoError
  /\ trace' = <<>>
  /\ UNCHANGED <<data, env, seen, ret>>

Next ==
  \/ Call
  \/ Cancel
  \/ PrepareContext
  \/ PreparePreState
  \/ PrepareExecParams
  \/ ExecuteStage
  \/ PrepareProverInput
  \/ Return
  \/ NextCall

Spec == Init /\ [][Next]_vars

\* ------------------------------------------------------------ properties
Range(q) == { q[i] : i \in DOMAIN q }
NoDuplicates(q) == \A i, j \in DOMAIN q : i # j => q[i] # q[j]

\* position of the first occurrence of event e in the trace of the current
\* call, 0 when it has not occurred
Pos(e) ==
  IF \E i \in DOMAIN trace : trace[i] = e
  THEN CHOOSE i \in DOMAIN trace : trace[i] = e /\ \A j \in 1..(i - 1) : trace[j] # e
  ELSE 0
Happened(e) == Pos(e) > 0
Before(a, b) == Happened(a) /\ Happened(b) /\ Pos(a) < Pos(b)
Count(e) == Cardinality({ i \in DOMAIN trace : trace[i] = e })

Returned(r) == ret[r].kind = "returned"
Succeeded(r) == Returned(r) /\ ret[r].inputs # <<>>
Failed(r) == Returned(r) /\ ret[r].err # NoError

\* the event that opens each stage, and the ones that close it
Begin(k) ==
  CASE k = 1 -> "Prepare context..."
    [] k = 2 -> "Prepare pre-state..."
    [] k = 3 -> "Prepare execution parameters..."
    [] k = 4 -> "Execute EVM..."
    [] k = 5 -> "prepareProverInput"
EndOk(k) ==
  CASE k = 1 -> "prepareContext=ok"
    [] k = 2 -> "preparePreState=ok"
    [] k = 3 -> "prepareExecParams=ok"
    [] k = 4 -> "execute=ok"
    [] k = 5 -> "prepareProverInput=ok"
EndErr(k) ==
  CASE k = 1 -> "prepareContext=err"
    [] k = 2 -> "preparePreState=err"
    [] k = 3 -> "prepareExecParams=err"
    [] k = 4 -> "execute=err"
    [] k = 5 -> "prepareProverInput=err"

\* C1: every call of Prepare on a valid PreflightData ends by returning
\* exactly one of a non-nil ProverInput and a non-nil error; it never
\* returns (nil, nil), never both, and never ends in a panic.
C1_ExactlyOneResult ==
  \A r \in 1..Runs :
    /\ ret[r].kind # "panicked"
    /\ Returned(r) => ((ret[r].inputs # <<>>) <=> (ret[r].err = NoError))

\* C2: the stages run strictly in the order context build, hydration,
\* exec-params construction, execution, assembly: a stage begins only after
\* its predecessor has completed successfully, no stage begins twice, and
\* after a stage has failed no later stage begins.
C2_StagesSequential ==
  \A k \in 1..5 :
    /\ Count(Begin(k)) <= 1
    /\ Count(EndOk(k)) + Count(EndErr(k)) <= 1
    /\ (Happened(EndOk(k)) \/ Happened(EndErr(k))) => Happened(Begin(k))
    /\ (k > 1 /\ Happened(Begin(k))) => Before(EndOk(k - 1), Begin(k))
    /\ Happened(EndErr(k)) => \A j \in 1..5 : j > k => ~Happened(Begin(j))

C2_Witness ==
  /\ pc = "done"
  /\ Happened(EndOk(5))
  /\ Before(Begin(2), Begin(3)) /\ Before(Begin(3), Begin(4)) /\ Before(Begin(4), Begin(5))

\* C3: an error returned by Prepare is the failing stage's error wrapped
\* with exactly that stage's name: each of the four names heads the error
\* iff that stage failed, the stage's own error follows unchanged, and the
\* failing stage was run once (no retry, no recovery).
C3_ErrorNamesFailingStage ==
  (pc = "done" /\ Failed(run)) =>
    LET e == ret[run].err
        names == {"failed to prepare validation context",
                  "failed to prefill validation database",
                  "failed to prepare validation exec params",
                  "validation execution failed"}
    IN /\ ret[run].inputs = <<>>
       /\ Cardinality({ i \in DOMAIN e : e[i] \in names }) = 1
       /\ (e[1] = "failed to prepare validation context") <=> Happened("prepareContext=err")
       /\ (e[1] = "failed to prefill validation database") <=> Happened("preparePreState=err")
       /\ (e[1] = "failed to prepare validation exec params") <=> Happened("prepareExecParams=err")
       /\ (e[1] = "validation execution failed") <=> Happened("execute=err")
       /\ Happened("prepareContext=err") =>
            Tail(e) = <<"failed to create chain", "genesis commit failed">>
       /\ Happened("prepareExecParams=err") =>
            Tail(e) = <<"failed to create pre-state from parent root",
                        "missing trie node for root">>
       /\ Happened("execute=err") => e[2] = "failed to execute block" /\ Len(e) >= 3
       /\ Happened("preparePreState=err") =>
            Tail(e) \in {<<"failed to create state nodes", "proof root mismatch">>,
                         <<"failed to update trie db with state nodes",
                           "trie commit rejected">>}
       /\ \A k \in 1..5 : Count(Begin(k)) <= 1

C3_Witness ==
  /\ pc = "done"
  /\ Failed(run)
  /\ ret[run].err = <<"failed to prepare validation exec params",
                       "failed to create pre-state from parent root",
                       "missing trie node for root">>

C5_BlockIdentical ==
  \A r \in 1..Runs :
    Succeeded(r) =>
      LET bs == ret[r].inputs[1].Blocks IN
      /\ Len(bs) = 1
      /\ bs[1].Header.Number = data.Block.Number
      /\ bs[1].Header.ParentHash = data.Block.ParentHash
      /\ bs[1].Header.Root = data.Block.Root
      /\ bs[1].Transactions = data.Block.Transactions
      /\ bs[1].Uncles = data.Block.Uncles
      /\ bs[1].Withdrawals = data.Block.Withdrawals

C5_Witness ==
  /\ Succeeded(1)
  /\ ret[1].inputs[1].Blocks[1].Transactions = <<"tx1">>
  /\ ret[1].inputs[1].Blocks[1].Uncles = <<"u1">>
  /\ ret[1].inputs[1].Blocks[1].Header.Number = 2

\* C6: the witness of a returned ProverInput is exactly the executor's:
\* Codes lists every bytecode of the executor's code set once and nothing
\* else, State every node of its node set once and nothing else, Ancestors
\* is its header list; what the executor did not record is not in it.
C6_WitnessExact ==
  (pc = "done" /\ Succeeded(run)) =>
    LET w == ret[run].inputs[1].Witness
        x == execParams[1].State[1].witness
    IN /\ NoDuplicates(w.Codes) /\ Range(w.Codes) = x.Codes
       /\ NoDuplicates(w.State) /\ Range(w.State) = x.State
       /\ w.Ancestors = x.Headers
       /\ x.Codes = env.wCodes /\ x.State = env.wNodes
       /\ Len(x.Headers) = env.wHeaders

C6_Witness ==
  /\ pc = "done"
  /\ Succeeded(run)
  /\ Len(ret[run].inputs[1].Witness.Codes) = 1
  /\ Len(ret[run].inputs[1].Witness.State) = 2
  /\ Cardinality(valCtx[1].stateDB.disk.codes) = 2
  /\ Len(ret[run].inputs[1].Witness.Ancestors) < Len(data.Ancestors)

\* C7: two calls of Prepare on the same PreflightData, the collaborators
\* behaving the same (an executor that honours the token being handed
\* tokens in the same state), end the same way; when they succeed, their
\* ChainConfig and Blocks are equal and their Codes and State are equal as
\* sets, whatever the iteration orders were.
C7_Deterministic ==
  \A r1, r2 \in 1..Runs :
    (/\ ret[r1].kind # "none" /\ ret[r2].kind # "none"
     /\ env.honoursCancel => (seen[r1] = seen[r2])) =>
      /\ ret[r1].kind = ret[r2].kind
      /\ ret[r1].err = ret[r2].err
      /\ Succeeded(r1) <=> Succeeded(r2)
      /\ Succeeded(r1) =>
           LET a == ret[r1].inputs[1]
               b == ret[r2].inputs[1]
           IN /\ a.ChainConfig = b.ChainConfig
              /\ a.ChainConfig = data.ChainConfig
              /\ a.Blocks = b.Blocks
              /\ Range(a.Witness.Codes) = Range(b.Witness.Codes)
              /\ Range(a.Witness.State) = Range(b.Witness.State)
              /\ Len(a.Witness.Codes) = Len(b.Witness.Codes)
              /\ Len(a.Witness.State) = Len(b.Witness.State)

C7_Witness ==
  /\ Succeeded(1) /\ Succeeded(2)
  /\ ret[1].inputs[1].Witness.Codes # ret[2].inputs[1].Witness.Codes
  /\ ret[1].inputs[1].Witness.State # ret[2].inputs[1].Witness.State

C9_GenesisAfterCommit ==
  Happened("GetHeaderByNumber(0)") => Before("Update", "GetHeaderByNumber(0)")

\* C9 (amended): the lookup of header number 0 happens once per call, after
\* the ancestor headers have been written and before the node set is built
\* and committed; the commit uses the root of the header it found.
C9_GenesisBeforeCommit ==
  /\ Count("GetHeaderByNumber(0)") <= 1
  /\ Happened("GetHeaderByNumber(0)") =>
       /\ Before("WriteHeaders", "GetHeaderByNumber(0)")
       /\ Before("GetHeaderByNumber(0)", "NodeSetFromStateTransitionProofs")
  /\ Happened("NodeSetFromStateTransitionProofs") => Happened("GetHeaderByNumber(0)")
  /\ Happened("Update") =>
       /\ Before("GetHeaderByNumber(0)", "Update")
       /\ Header(0) \in valCtx[1].stateDB.disk.headers
       /\ (Happened("preparePreState=ok") =>
             valCtx[1].stateDB.disk.root =
               <<[parent |-> data.Ancestors[1].Root, new |-> Header(0).Root,
                  number |-> 0]>>)

C9_Witness ==
  /\ Happened("Update")
  /\ Happened("preparePreState=ok")
  /\ data.Block.Number = 2
  /\ valCtx[1].stateDB.disk.root # <<>>

\* C10: hydration writes the ancestor headers, builds the NodeSet, commits
\* it and writes the bytecodes, in this order, and stops at the first
\* sub-step that fails: after a failing NodeSet construction or commit no
\* bytecode is in the code space, the executor is not invoked, and Prepare
\* returns an error and no ProverInput.
C10_HydrationAborts ==
  /\ Happened("NodeSetFromStateTransitionProofs") =>
       Before("WriteHeaders", "NodeSetFromStateTransitionProofs")
  /\ Happened("Update") => Before("NodeSetFromStateTransitionProofs", "Update")
  /\ Happened("WriteCodes") => Before("Update", "WriteCodes")
  /\ Happened("preparePreState=ok") => Happened("WriteCodes")
  /\ Happened("preparePreState=err") =>
       /\ valCtx[1].stateDB.disk.codes = {}
       /\ ~Happened("WriteCodes")
       /\ ~Happened("Execute")
       /\ (env.fail = "NodeSet") => ~Happened("Update") /\ valCtx[1].stateDB.disk.nodes = {}
       /\ pc \in {"return", "done"}
       /\ inputs = <<>>
       /\ (pc = "done") => (Failed(run) /\ ret[run].inputs = <<>>)

C10_Witness ==
  /\ pc = "done"
  /\ env.fail = "Update"
  /\ Happened("preparePreState=err")
  /\ valCtx[1].stateDB.disk.headers # {}
  /\ Failed(run)

====
